---- MODULE Spec2Model ----
(***************************************************************************)
(* Weighted Earley parser of src/parse.py: the chart (EarleyChart), the    *)
(* per-column agenda (Agenda) with its tip map and move-down, the tips     *)
(* (Tip) and the reporting done by main.                                   *)
(*                                                                         *)
(* Python indices are kept 0-based as in the source: column c of the chart *)
(* is cols[c + 1], element k of a list is lst[k + 1].  Rule weights are    *)
(* naturals (-log2 of a probability 1, 1/2, 1/4, ...).                    *)
(***************************************************************************)
EXTENDS Integers, Sequences, FiniteSets, TLC

\* ------------------------------------------------------------------ bounds
MaxLen == 2      \* longest token sequence parsed
MaxRules == 5    \* most rules in a grammar

\* ------------------------------------------------------- rules and grammars
None == "None"

start_symbol == "ROOT"

Rule(l, r, w) == [lhs |-> l, rhs |-> r, weight |-> w]

\* The rules a grammar file may list, in file order; a grammar is any
\* selection of at most MaxRules of its lines that keeps a ROOT rule.
RuleFile ==
  << Rule("ROOT", <<"T">>, 0),
     Rule("ROOT", <<"B">>, 0),
     Rule("ROOT", <<"C">>, 0),
     Rule("ROOT", <<"B", "T">>, 0),
     Rule("T", <<"B">>, 0),
     Rule("B", <<"x">>, 1),
     Rule("B", <<"C">>, 0),
     Rule("B", <<"B", "y">>, 1),
     Rule("B", <<>>, 0),
     Rule("C", <<"x">>, 0),
     Rule("C", <<"B">>, 1),
     Rule("B", <<"T">>, 0) >>

Words == {"x", "y"}

Range(seq) == { seq[k] : k \in 1..Len(seq) }

RECURSIVE Lines(_, _)
Lines(k, S) ==
  IF k > Len(RuleFile) THEN <<>>
  ELSE (IF k \in S THEN <<RuleFile[k]>> ELSE <<>>) \o Lines(k + 1, S)

Grammars ==
  { Lines(1, S) : S \in { S0 \in SUBSET (1..Len(RuleFile)) :
        /\ Cardinality(S0) <= MaxRules
        /\ \E k \in S0 : RuleFile[k].lhs = start_symbol } }

Sentences == UNION { [1..n -> Words] : n \in 0..MaxLen }

\* Grammar.expansions: the rules with the given lhs, in file order
expansions(g, lhs) == SelectSeq(g, LAMBDA r : r.lhs = lhs)

\* Grammar.is_nonterminal
is_nonterminal(g, symbol) == \E k \in 1..Len(g) : g[k].lhs = symbol

\* -------------------------------------------------------------------- items
Item(r, d, s) == [rule |-> r, dot_position |-> d, start_position |-> s]

next_symbol(it) ==
  IF it.dot_position = Len(it.rule.rhs) THEN None
  ELSE it.rule.rhs[it.dot_position + 1]

with_dot_advanced(it) ==
  Item(it.rule, it.dot_position + 1, it.start_position)

\* --------------------------------------------------------------------- tips
\* A backpointer is <<>> (Python None, a terminal) or <<child item, column>>.
Tip(it) == [item |-> it, weight |-> None, backpointers |-> <<>>]

initialize_when_predict(tip) ==
  [tip EXCEPT !.weight = tip.item.rule.weight]

\* initialize_when_scan without the backpointer of the word scanned
initialize_when_scan_bare(tip, tip_of_scanned_item) ==
  [tip EXCEPT !.weight = tip_of_scanned_item.weight,
              !.backpointers = tip_of_scanned_item.backpointers]

initialize_when_scan(tip, tip_of_scanned_item) ==
  [tip EXCEPT !.weight = tip_of_scanned_item.weight,
              !.backpointers = tip_of_scanned_item.backpointers \o << <<>> >>]

\* initialize_when_attach without the weight of the attached item
initialize_when_attach_free(tip, tip_of_attachment_item, tip_of_customer_item, position) ==
  [tip EXCEPT !.weight = tip_of_customer_item.weight,
              !.backpointers = tip_of_customer_item.backpointers
                                 \o << <<tip_of_attachment_item.item, position>> >>]

initialize_when_attach(tip, tip_of_attachment_item, tip_of_customer_item, position) ==
  [tip EXCEPT !.weight = tip_of_customer_item.weight + tip_of_attachment_item.weight,
              !.backpointers = tip_of_customer_item.backpointers
                                 \o << <<tip_of_attachment_item.item, position>> >>]

\* ------------------------------------------------------------------- agenda
\* move_down returns a NEW list; its argument is left as it was.
move_down(lst, k) ==
  SubSeq(lst, 1, k) \o SubSeq(lst, k + 2, Len(lst)) \o <<lst[k + 1]>>

Agenda == [items |-> <<>>, index |-> <<>>, tips |-> <<>>, next |-> 0]

\* Agenda.__len__
len(a) == Len(a.items) - a.next

\* push without the membership test of lines 369-370
push_again(a, it) ==
  [agenda |-> [a EXCEPT !.items = Append(@, it),
                        !.index = [k \in DOMAIN @ \cup {it} |->
                                     IF k = it THEN Len(a.items) ELSE @[k]]],
   ret |-> FALSE]

\* Agenda.push: the agenda afterwards and the value returned
push(a, it) ==
  LET if_old_item_exists == it \in DOMAIN a.index IN
  [agenda |-> IF it \notin DOMAIN a.index
              THEN [a EXCEPT !.items = Append(@, it),
                             !.index = @ @@ (it :> Len(a.items))]
              ELSE a,
   ret |-> if_old_item_exists]

\* pop taking the newest item instead of the one at the cursor
pop_newest(a) ==
  IF len(a) = 0
  THEN [agenda |-> a, item |-> None, raised |-> TRUE]
  ELSE [agenda |-> [a EXCEPT !.next = @ + 1], item |-> a.items[Len(a.items)],
        raised |-> FALSE]

\* Agenda.pop: the agenda afterwards and the item returned, or raised for the
\* IndexError of line 379
pop(a) ==
  IF len(a) = 0
  THEN [agenda |-> a, item |-> None, raised |-> TRUE]
  ELSE LET item == a.items[a.next + 1]
       IN [agenda |-> [a EXCEPT !.next = @ + 1], item |-> item, raised |-> FALSE]

\* Agenda.all
all(a) == a.items

\* Agenda.find_tip_for_item: <<tip>>, or <<>> when the assertion of line 430
\* fails
find_tip_for_item(a, it) == IF it \in DOMAIN a.tips THEN <<a.tips[it]>> ELSE <<>>

\* the assertion of lines 406 and 425
same_length(a) == Cardinality(DOMAIN a.index) = Len(a.items)

\* update_tip_for_item with the strict comparison of the commented-out line 402
update_tip_for_item_strict(a, it, tip) ==
  IF it \notin DOMAIN a.index
  THEN [agenda |-> a, ret |-> FALSE, raised |-> TRUE]
  ELSE IF it \notin DOMAIN a.tips
  THEN [agenda |-> [a EXCEPT !.tips = @ @@ (it :> tip)], ret |-> FALSE,
        raised |-> ~same_length(a)]
  ELSE IF tip.weight < a.tips[it].weight
       THEN [agenda |-> [a EXCEPT !.tips[it] = tip], ret |-> TRUE,
             raised |-> ~same_length(a)]
       ELSE [agenda |-> a, ret |-> FALSE, raised |-> ~same_length(a)]

\* Agenda.update_tip_for_item: the agenda afterwards, the value returned, and
\* raised when the assertion of line 395 or the one of line 406 fails
update_tip_for_item(a, it, tip) ==
  IF it \notin DOMAIN a.index
  THEN [agenda |-> a, ret |-> FALSE, raised |-> TRUE]
  ELSE IF it \notin DOMAIN a.tips
  THEN [agenda |-> [a EXCEPT !.tips = @ @@ (it :> tip)], ret |-> FALSE,
        raised |-> ~same_length(a)]
  ELSE IF tip.weight <= a.tips[it].weight
       THEN [agenda |-> [a EXCEPT !.tips[it] = tip], ret |-> TRUE,
             raised |-> ~same_length(a)]
       ELSE [agenda |-> a, ret |-> FALSE, raised |-> ~same_length(a)]

\* Agenda.move_down_item raises when the assertion of line 415 fails, or the
\* one of line 425 after a move (the call changes neither the keys of the
\* index nor the length of the list)
move_down_item_raises(a, it) ==
  \/ it \notin DOMAIN a.index
  \/ a.index[it] < a.next /\ ~same_length(a)

\* Agenda.move_down_item when it does not raise.  The list built by move_down
\* is dropped by the caller (line 419 is an expression statement), so items stays as it was
\* while index and next are rewritten.
move_down_item(a, it) ==
  IF ~(a.index[it] < a.next) THEN a
  ELSE LET index == a.index[it]
           dropped == move_down(a.items, index)
       IN [a EXCEPT !.index = [it_ \in DOMAIN a.index |->
                                 IF it_ = it THEN Len(a.items) - 1
                                 ELSE IF a.index[it_] > index THEN a.index[it_] - 1
                                 ELSE a.index[it_]],
                    !.next = @ - 1]

\* ------------------------------------------------------------- Earley chart
\* A chart in the middle of an operation: the columns, the log of the
\* update_tip_for_item calls and move_down_item calls the operation made, and
\* the exception that ended it ("" when none did).
Chart(cs) == [cols |-> cs, calls |-> <<>>, moves |-> <<>>, raised |-> ""]

AssertionError == "AssertionError"
ValueError == "ValueError"
TypeError == "TypeError"
RecursionError == "RecursionError"

Call(op, c, it, existed, before, tip, u) ==
  [op |-> op, col |-> c, item |-> it, existed |-> existed,
   before |-> IF it \in DOMAIN before.tips THEN <<before.tips[it]>> ELSE <<>>,
   candidate |-> tip, ret |-> u.ret, after |-> u.agenda.tips[it]]

\* EarleyChart._predict, from rule k of the expansions on
RECURSIVE predict_from(_, _, _, _)
predict_from(ch, rules, position, k) ==
  IF ch.raised # "" \/ k > Len(rules) THEN ch
  ELSE LET new_item == Item(rules[k], 0, position)
           p == push(ch.cols[position + 1], new_item)
           new_tip == initialize_when_predict(Tip(new_item))
           u == update_tip_for_item(p.agenda, new_item, new_tip)
       IN IF u.raised
          THEN [ch EXCEPT !.cols[position + 1] = u.agenda, !.raised = AssertionError]
          ELSE predict_from(
                 [ch EXCEPT !.cols[position + 1] = u.agenda,
                            !.calls = Append(@, Call("PREDICT", position, new_item,
                                                     p.ret, p.agenda, new_tip, u))],
                 rules, position, k + 1)

\* _predict writing into column 0 whatever the position
_predict_at_start(ch, g, nonterminal, position) ==
  predict_from(ch, expansions(g, nonterminal), 0, 1)

_predict(ch, g, nonterminal, position) ==
  predict_from(ch, expansions(g, nonterminal), position, 1)

\* _scan without the comparison of the token with the item's next symbol
_scan_any_word(ch, toks, it, position) ==
  IF position < Len(toks)
  THEN LET new_item == with_dot_advanced(it)
           p == push(ch.cols[position + 2], new_item)
           found == find_tip_for_item(ch.cols[position + 1], it)
       IN IF found = <<>>
          THEN [ch EXCEPT !.cols[position + 2] = p.agenda, !.raised = AssertionError]
          ELSE
       LET tip_of_scanned_item == found[1]
           new_tip == initialize_when_scan(Tip(new_item), tip_of_scanned_item)
           u == update_tip_for_item(p.agenda, new_item, new_tip)
       IN IF u.raised
          THEN [ch EXCEPT !.cols[position + 2] = u.agenda, !.raised = AssertionError]
          ELSE [ch EXCEPT !.cols[position + 2] = u.agenda,
                          !.calls = Append(@, Call("SCAN", position + 1, new_item,
                                                   p.ret, p.agenda, new_tip, u))]
  ELSE ch

\* EarleyChart._scan
_scan(ch, toks, it, position) ==
  IF position < Len(toks) /\ toks[position + 1] = next_symbol(it)
  THEN LET new_item == with_dot_advanced(it)
           p == push(ch.cols[position + 2], new_item)
           found == find_tip_for_item(ch.cols[position + 1], it)
       IN IF found = <<>>
          THEN [ch EXCEPT !.cols[position + 2] = p.agenda, !.raised = AssertionError]
          ELSE
       LET tip_of_scanned_item == found[1]
           new_tip == initialize_when_scan(Tip(new_item), tip_of_scanned_item)
           u == update_tip_for_item(p.agenda, new_item, new_tip)
       IN IF u.raised
          THEN [ch EXCEPT !.cols[position + 2] = u.agenda, !.raised = AssertionError]
          ELSE [ch EXCEPT !.cols[position + 2] = u.agenda,
                          !.calls = Append(@, Call("SCAN", position + 1, new_item,
                                                   p.ret, p.agenda, new_tip, u))]
  ELSE ch

\* _attach moving down every advanced item that existed, improved or not
RECURSIVE attach_from_existed(_, _, _, _)
attach_from_existed(ch, it, position, k) ==
  LET mid == it.start_position IN
  IF ch.raised # "" \/ k > Len(all(ch.cols[mid + 1])) THEN ch
  ELSE LET customer == all(ch.cols[mid + 1])[k] IN
       IF next_symbol(customer) # it.rule.lhs
       THEN attach_from_existed(ch, it, position, k + 1)
       ELSE LET new_item == with_dot_advanced(customer)
                p == push(ch.cols[position + 1], new_item)
                cols1 == [ch.cols EXCEPT ![position + 1] = p.agenda]
                found_attachment == find_tip_for_item(cols1[position + 1], it)
                found_customer == find_tip_for_item(cols1[mid + 1], customer)
            IN IF found_attachment = <<>> \/ found_customer = <<>>
               THEN [ch EXCEPT !.cols = cols1, !.raised = AssertionError]
               ELSE
            LET tip_of_attachment_item == found_attachment[1]
                tip_of_customer_item == found_customer[1]
                new_tip == initialize_when_attach(Tip(new_item), tip_of_attachment_item,
                                                  tip_of_customer_item, position)
                u == update_tip_for_item(cols1[position + 1], new_item, new_tip)
                moved == p.ret
            IN IF u.raised \/ (moved /\ move_down_item_raises(u.agenda, new_item))
               THEN [ch EXCEPT !.cols = [cols1 EXCEPT ![position + 1] = u.agenda],
                               !.raised = AssertionError]
               ELSE
            LET a3 == IF moved THEN move_down_item(u.agenda, new_item) ELSE u.agenda
            IN attach_from_existed(
                 [cols |-> [cols1 EXCEPT ![position + 1] = a3],
                  calls |-> Append(ch.calls, Call("ATTACH", position, new_item,
                                                  p.ret, p.agenda, new_tip, u)),
                  moves |-> IF moved
                            THEN Append(ch.moves, [col |-> position, item |-> new_item,
                                                   before |-> u.agenda, after |-> a3])
                            ELSE ch.moves,
                  raised |-> ""],
                 it, position, k + 1)

\* EarleyChart._attach, from customer k of column mid on.  The loop runs over
\* the live list of column mid, so customers appended meanwhile (mid =
\* position) are visited too.
RECURSIVE attach_from(_, _, _, _)
attach_from(ch, it, position, k) ==
  LET mid == it.start_position IN
  IF ch.raised # "" \/ k > Len(all(ch.cols[mid + 1])) THEN ch
  ELSE LET customer == all(ch.cols[mid + 1])[k] IN
       IF next_symbol(customer) # it.rule.lhs
       THEN attach_from(ch, it, position, k + 1)
       ELSE LET new_item == with_dot_advanced(customer)
                p == push(ch.cols[position + 1], new_item)
                cols1 == [ch.cols EXCEPT ![position + 1] = p.agenda]
                found_attachment == find_tip_for_item(cols1[position + 1], it)
                found_customer == find_tip_for_item(cols1[mid + 1], customer)
            IN IF found_attachment = <<>> \/ found_customer = <<>>
               THEN [ch EXCEPT !.cols = cols1, !.raised = AssertionError]
               ELSE
            LET tip_of_attachment_item == found_attachment[1]
                tip_of_customer_item == found_customer[1]
                new_tip == initialize_when_attach(Tip(new_item), tip_of_attachment_item,
                                                  tip_of_customer_item, position)
                u == update_tip_for_item(cols1[position + 1], new_item, new_tip)
                moved == p.ret /\ u.ret
            IN IF u.raised \/ (moved /\ move_down_item_raises(u.agenda, new_item))
               THEN [ch EXCEPT !.cols = [cols1 EXCEPT ![position + 1] = u.agenda],
                               !.raised = AssertionError]
               ELSE
            LET a3 == IF moved THEN move_down_item(u.agenda, new_item) ELSE u.agenda
            IN attach_from(
                 [cols |-> [cols1 EXCEPT ![position + 1] = a3],
                  calls |-> Append(ch.calls, Call("ATTACH", position, new_item,
                                                  p.ret, p.agenda, new_tip, u)),
                  moves |-> IF moved
                            THEN Append(ch.moves, [col |-> position, item |-> new_item,
                                                   before |-> u.agenda, after |-> a3])
                            ELSE ch.moves,
                  raised |-> ""],
                 it, position, k + 1)

_attach(ch, it, position) == attach_from(ch, it, position, 1)

\* EarleyChart.accepted_with_item: the first matching item of the last column,
\* as <<item>>, or <<>> for Python's None
accepted_with_item(cs, g) ==
  LET last == all(cs[Len(cs)])
      hits == { k \in 1..Len(last) :
                  /\ last[k].rule.lhs = start_symbol
                  /\ next_symbol(last[k]) = None
                  /\ last[k].start_position = 0 }
  IN IF hits = {} THEN <<>>
     ELSE <<last[CHOOSE k \in hits : \A k2 \in hits : k <= k2]>>

\* What a lookup or the printing of a tree gives: a value, or the exception
\* raised.
Returned(value) == [error |-> "", value |-> value]
Raised(error) == [error |-> error, value |-> <<>>]

\* find_tip_for_item_globally looking in self.cols[postion - 1]
find_tip_for_item_globally_before(cs, it, postion) ==
  IF postion # <<>>
  THEN LET agenda == cs[IF postion[1] = 0 THEN Len(cs) ELSE postion[1]]
           found == find_tip_for_item(agenda, it)
       IN IF it \in Range(all(agenda))
          THEN IF found = <<>> THEN Raised(AssertionError) ELSE Returned(found[1])
          ELSE Raised(ValueError)
  ELSE LET where == { c \in 1..Len(cs) : it \in Range(all(cs[c])) } IN
       IF where = {} THEN Raised(ValueError)
       ELSE LET agenda == cs[CHOOSE c \in where : \A c2 \in where : c2 <= c]
                found == find_tip_for_item(agenda, it)
            IN IF found = <<>> THEN Raised(AssertionError) ELSE Returned(found[1])

\* EarleyChart.find_tip_for_item_globally: the tip, or ValueError (line 197),
\* or the AssertionError of find_tip_for_item.  postion is <<column>>, or <<>>
\* for Python's None.
find_tip_for_item_globally(cs, it, postion) ==
  IF postion # <<>>
  THEN LET agenda == cs[postion[1] + 1]
           found == find_tip_for_item(agenda, it)
       IN IF it \in Range(all(agenda))
          THEN IF found = <<>> THEN Raised(AssertionError) ELSE Returned(found[1])
          ELSE Raised(ValueError)
  ELSE LET where == { c \in 1..Len(cs) : it \in Range(all(cs[c])) } IN
       IF where = {} THEN Raised(ValueError)
       ELSE LET agenda == cs[CHOOSE c \in where : \A c2 \in where : c2 <= c]
                found == find_tip_for_item(agenda, it)
            IN IF found = <<>> THEN Raised(AssertionError) ELSE Returned(found[1])

\* The recursion of pretty_print_item visits (item, column) pairs; a call
\* chain longer than the chart has pairs repeats one and never returns
\* (Python ends it with RecursionError).
RecursionDepth(cs) == Len(cs) + Cardinality(UNION { Range(all(cs[c])) : c \in 1..Len(cs) }) * Len(cs)

\* EarleyChart.pretty_print_item: the text, as the sequence of the words
\* printed, or the exception raised.  print_from is its loop over the
\* right-hand side, from symbol k on: the first symbol that fails decides.
RECURSIVE pretty_print_item(_, _, _, _, _)
RECURSIVE print_from(_, _, _, _, _, _)
print_from(cs, g, it, tip, k, depth) ==
  IF k > Len(it.rule.rhs) THEN Returned(<<>>)
  ELSE LET symbol == it.rule.rhs[k]
           rest == print_from(cs, g, it, tip, k + 1, depth)
       IN IF ~is_nonterminal(g, symbol)
          THEN IF rest.error # "" THEN rest ELSE Returned(<<symbol>> \o rest.value)
          ELSE IF Len(tip.backpointers[k]) # 2 THEN Raised(TypeError)
               ELSE LET item_for_symbol == tip.backpointers[k][1]
                        pos == tip.backpointers[k][2]
                    IN IF item_for_symbol.rule.lhs # symbol THEN Raised(AssertionError)
                       ELSE LET sub == pretty_print_item(cs, g, item_for_symbol,
                                                         <<pos>>, depth - 1)
                            IN IF sub.error # "" THEN sub
                               ELSE IF rest.error # "" THEN rest
                               ELSE Returned(sub.value \o rest.value)

pretty_print_item(cs, g, it, position, depth) ==
  LET found == find_tip_for_item_globally(cs, it, position) IN
  IF depth = 0 THEN Raised(RecursionError)
  ELSE IF found.error # "" THEN found
  ELSE LET tip == found.value IN
       IF ~(it.dot_position = Len(it.rule.rhs) /\ Len(it.rule.rhs) = Len(tip.backpointers))
       THEN Raised(AssertionError)
       ELSE LET body == print_from(cs, g, it, tip, 1, depth) IN
            IF body.error # "" THEN body
            ELSE Returned(<<"(", it.rule.lhs>> \o body.value \o <<")">>)

\* -------------------------------------------------------------------- state
Output(kind, tree, weight) == [kind |-> kind, tree |-> tree, weight |-> weight]

VARIABLES
  grammar,     \* the Grammar (its rules in file order)
  tokens,      \* EarleyChart.tokens
  cols,        \* EarleyChart.cols
  i,           \* the column the main loop is in
  pc,          \* "init", "loop", "finished", "done"
  turn,        \* parity of the number of turns of the while loop taken so far
  popped,      \* <<item>> of the last column.pop(), <<>> before the first
  calls,       \* the update_tip_for_item calls of the last step
  moves,       \* the move_down_item calls of the last step
  final_item,  \* main's final_item: <<item>>, or <<>> for None
  output,      \* what main printed: kind "" before it prints, "NONE", "PARSE" with
               \* the tree and the weight, or the name of the exception that ended
               \* the run
  ever_popped, \* <<column, item>> pairs popped so far
  owed,        \* <<column, item>> pairs moved down after a pop and not popped since
  api          \* the last Agenda method called directly on a column, and its result

\* A direct call of an Agenda method: the method, its argument (<<item>>, or
\* <<>> for pop), the agenda before it, what it returned or raised, and what
\* the calls so far popped and whether one of them was move_down_item.
ApiCall(op, arg, before, ret, item, raised, pops, moved, n) ==
  [op |-> op, arg |-> arg, before |-> before, ret |-> ret, item |-> item,
   raised |-> raised, pops |-> pops, moved |-> moved, n |-> n]

vars == <<grammar, tokens, cols, i, pc, turn, popped, calls, moves, final_item, output,
          ever_popped, owed, api>>

Init ==
  /\ grammar \in Grammars
  /\ tokens \in Sentences
  /\ cols = [c \in 1..(Len(tokens) + 1) |-> Agenda]
  /\ i = 0
  /\ pc = "init"
  /\ turn = 0
  /\ popped = <<>>
  /\ calls = <<>>
  /\ moves = <<>>
  /\ final_item = <<>>
  /\ output = Output("", <<>>, 0)
  /\ ever_popped = {}
  /\ owed = {}
  /\ api = ApiCall("", <<>>, Agenda, FALSE, <<>>, FALSE, <<>>, FALSE, 0)

\* _run_earley line 95: predict the start symbol at position 0
Start ==
  /\ pc = "init"
  /\ LET ch == _predict(Chart(cols), grammar, start_symbol, 0) IN
       /\ cols' = ch.cols
       /\ calls' = ch.calls
       /\ moves' = ch.moves
       /\ pc' = IF ch.raised = "" THEN "loop" ELSE "done"
       /\ output' = IF ch.raised = "" THEN output ELSE Output(ch.raised, <<>>, 0)
  /\ UNCHANGED <<grammar, tokens, i, turn, popped, final_item, ever_popped, owed, api>>

\* one turn of the while loop: pop an item and run the operation chosen for it
Step(kind) ==
  /\ pc = "loop"
  /\ len(cols[i + 1]) > 0
  /\ LET p == pop(cols[i + 1])
         it == p.item
         next == next_symbol(it)
         ch0 == Chart([cols EXCEPT ![i + 1] = p.agenda])
         ch == IF next = None THEN _attach(ch0, it, i)
               ELSE IF is_nonterminal(grammar, next) THEN _predict(ch0, grammar, next, i)
               ELSE _scan(ch0, tokens, it, i)
         redo == { <<i, ch.moves[k].item>> : k \in 1..Len(ch.moves) }
     IN /\ kind = (IF next = None THEN "ATTACH"
                   ELSE IF is_nonterminal(grammar, next) THEN "PREDICT" ELSE "SCAN")
        /\ turn' = 1 - turn
        /\ popped' = <<it>>
        /\ cols' = ch.cols
        /\ calls' = ch.calls
        /\ moves' = ch.moves
        /\ ever_popped' = ever_popped \cup {<<i, it>>}
        /\ owed' = (owed \ {<<i, it>>}) \cup (redo \cap ever_popped')
        /\ pc' = IF ch.raised = "" THEN pc ELSE "done"
        /\ output' = IF ch.raised = "" THEN output ELSE Output(ch.raised, <<>>, 0)
  /\ UNCHANGED <<grammar, tokens, i, final_item, api>>

Attach == Step("ATTACH")

Predict == Step("PREDICT")

Scan == Step("SCAN")

\* the while loop of column i ends and the for loop moves to the next column
NextColumn ==
  /\ pc = "loop"
  /\ len(cols[i + 1]) = 0
  /\ i < Len(tokens)
  /\ i' = i + 1
  /\ calls' = <<>>
  /\ moves' = <<>>
  /\ UNCHANGED <<grammar, tokens, cols, pc, turn, popped, final_item, output,
                 ever_popped, owed, api>>

\* the for loop ends after the last column
LoopEnd ==
  /\ pc = "loop"
  /\ len(cols[i + 1]) = 0
  /\ i = Len(tokens)
  /\ pc' = "finished"
  /\ calls' = <<>>
  /\ moves' = <<>>
  /\ UNCHANGED <<grammar, tokens, cols, i, turn, popped, final_item, output,
                 ever_popped, owed, api>>

\* main lines 495-502: NONE, or the tree of the accepted item and then the
\* weight of its tip, unless one of the two raises
Report ==
  /\ pc = "finished"
  /\ final_item' = accepted_with_item(cols, grammar)
  /\ output' = IF final_item' = <<>> THEN Output("NONE", <<>>, 0)
               ELSE LET tree == pretty_print_item(cols, grammar, final_item'[1], <<>>,
                                                  RecursionDepth(cols))
                        found == find_tip_for_item(cols[Len(cols)], final_item'[1])
                    IN IF tree.error # "" THEN Output(tree.error, <<>>, 0)
                       ELSE IF found = <<>> THEN Output(AssertionError, <<>>, 0)
                       ELSE Output("PARSE", tree.value, found[1].weight)
  /\ pc' = "done"
  /\ UNCHANGED <<grammar, tokens, cols, i, turn, popped, calls, moves, ever_popped, owed,
                 api>>

Next == Start \/ Attach \/ Predict \/ Scan \/ NextColumn \/ LoopEnd \/ Report

Spec == Init /\ [][Next]_vars

\* Termination is checked on one-word sentences and the grammars made of the
\* rules ROOT -> B, B -> x, B -> C and C -> x.  The driver is a sequential loop
\* with no suspension point: a step that can be taken is taken.
LiveInit ==
  /\ Init
  /\ Len(tokens) <= 1
  /\ Range(grammar) \subseteq {RuleFile[2], RuleFile[6], RuleFile[7], RuleFile[10]}

LiveSpec == LiveInit /\ [][Next]_vars /\ WF_vars(Next)

TypeOK == pc \in {"init", "loop", "finished", "done", "agenda"}

\* ------------------------------------------------------ one Agenda, directly
\* The methods of one Agenda called in any order, as a caller of the class
\* may: push and move_down_item with items of the rules B -> x and C -> x,
\* and pop also when nothing is pending.
MaxApiCalls == 5

ApiItems ==
  { Item(RuleFile[6], 0, 0), Item(RuleFile[6], 1, 0), Item(RuleFile[10], 0, 0) }

AgendaInit ==
  /\ grammar = <<RuleFile[6], RuleFile[10]>>
  /\ tokens = <<>>
  /\ cols = <<Agenda>>
  /\ i = 0
  /\ pc = "agenda"
  /\ turn = 0
  /\ popped = <<>>
  /\ calls = <<>>
  /\ moves = <<>>
  /\ final_item = <<>>
  /\ output = Output("", <<>>, 0)
  /\ ever_popped = {}
  /\ owed = {}
  /\ api = ApiCall("", <<>>, Agenda, FALSE, <<>>, FALSE, <<>>, FALSE, 0)

ApiPush ==
  /\ pc = "agenda"
  /\ api.n < MaxApiCalls
  /\ \E it \in ApiItems :
       LET p == push(cols[1], it) IN
         /\ cols' = <<p.agenda>>
         /\ api' = ApiCall("push", <<it>>, cols[1], p.ret, <<>>, FALSE,
                           api.pops, api.moved, api.n + 1)
  /\ UNCHANGED <<grammar, tokens, i, pc, turn, popped, calls, moves, final_item, output,
                 ever_popped, owed>>

ApiPop ==
  /\ pc = "agenda"
  /\ api.n < MaxApiCalls
  /\ LET p == pop(cols[1]) IN
       /\ cols' = <<p.agenda>>
       /\ api' = ApiCall("pop", <<>>, cols[1], FALSE,
                         IF p.raised THEN <<>> ELSE <<p.item>>, p.raised,
                         IF p.raised THEN api.pops ELSE Append(api.pops, p.item),
                         api.moved, api.n + 1)
  /\ UNCHANGED <<grammar, tokens, i, pc, turn, popped, calls, moves, final_item, output,
                 ever_popped, owed>>

\* move_down_item asserts that its item is in the index (line 415)
ApiMoveDown ==
  /\ pc = "agenda"
  /\ api.n < MaxApiCalls
  /\ \E it \in DOMAIN cols[1].index :
       /\ cols' = <<move_down_item(cols[1], it)>>
       /\ api' = ApiCall("move_down_item", <<it>>, cols[1], FALSE, <<>>, FALSE,
                         api.pops, TRUE, api.n + 1)
  /\ UNCHANGED <<grammar, tokens, i, pc, turn, popped, calls, moves, final_item, output,
                 ever_popped, owed>>

AgendaNext == ApiPush \/ ApiPop \/ ApiMoveDown

AgendaSpec == AgendaInit /\ [][AgendaNext]_vars

\* ------------------------------------------------- the grammar's derivations
\* A fact <<N, a, b>> says that nonterminal N derives tokens a..b-1 (0-based).
\* RhsCosts is the set of total child weights with which rhs[k..] derives
\* tokens a..b-1, given the weights W known for facts.
RECURSIVE RhsCosts(_, _, _, _, _, _, _)
RhsCosts(g, toks, W, rhs, k, a, b) ==
  IF k > Len(rhs) THEN (IF a = b THEN {0} ELSE {})
  ELSE IF is_nonterminal(g, rhs[k])
       THEN UNION { { W[<<rhs[k], a, m>>] + rest :
                        rest \in RhsCosts(g, toks, W, rhs, k + 1, m, b) } :
                    m \in { m0 \in a..b : <<rhs[k], a, m0>> \in DOMAIN W } }
       ELSE IF a < b /\ toks[a + 1] = rhs[k]
            THEN RhsCosts(g, toks, W, rhs, k + 1, a + 1, b)
            ELSE {}

Least(S) == CHOOSE n \in S : \A n2 \in S : n <= n2

\* one round of relaxation: the least weight of a derivation tree one level
\* deeper than those W accounts for
Relax(g, toks, W) ==
  LET spans == { <<a, b>> \in (0..Len(toks)) \X (0..Len(toks)) : a <= b }
      cands(N, a, b) ==
        UNION { { g[r].weight + cst : cst \in RhsCosts(g, toks, W, g[r].rhs, 1, a, b) } :
                r \in { r0 \in 1..Len(g) : g[r0].lhs = N } }
        \cup (IF <<N, a, b>> \in DOMAIN W THEN {W[<<N, a, b>>]} ELSE {})
      facts == { <<g[r].lhs, sp[1], sp[2]>> : r \in 1..Len(g), sp \in spans }
      live == { f \in facts : cands(f[1], f[2], f[3]) # {} }
  IN [f \in live |-> Least(cands(f[1], f[2], f[3]))]

RECURSIVE Derivations(_, _, _)
Derivations(g, toks, W) ==
  LET W2 == Relax(g, toks, W) IN
  IF W2 = W THEN W ELSE Derivations(g, toks, W2)

\* the facts of the grammar about the sentence, each with its least weight
BestWeights(g, toks) == Derivations(g, toks, [f \in {} |-> 0])

Derivable(g, toks) == <<start_symbol, 0, Len(toks)>> \in DOMAIN BestWeights(g, toks)

MinWeight(g, toks) == BestWeights(g, toks)[<<start_symbol, 0, Len(toks)>>]

NoEmptyRhs(g) == \A k \in 1..Len(g) : Len(g[k].rhs) > 0

RECURSIVE Closure(_)
Closure(R) ==
  LET R2 == R \cup { <<p[1][1], p[2][2]>> : p \in { q \in R \X R : q[1][2] = q[2][1] } }
  IN IF R2 = R THEN R ELSE Closure(R2)

NoUnitCycle(g) ==
  LET unit == { <<g[k].lhs, g[k].rhs[1]>> :
                  k \in { k0 \in 1..Len(g) :
                            Len(g[k0].rhs) = 1 /\ is_nonterminal(g, g[k0].rhs[1]) } }
  IN \A e \in Closure(unit) : e[1] # e[2]

Accepted == output.kind = "PARSE"
Rejected == output.kind = "NONE"
LoopFinished == pc \in {"finished", "done"}

\* the complete start-symbol items of the last column that start at 0
RootItems ==
  { it \in DOMAIN cols[Len(cols)].index :
      it.rule.lhs = start_symbol /\ next_symbol(it) = None /\ it.start_position = 0 }

Pending(a, it) == \E k \in (a.next + 1)..Len(a.items) : a.items[k] = it

\* ------------------------------------------------------------------- claims
\* C1: when a sentence is accepted, the weight reported for it is the least
\* total rule weight of any derivation of the sentence from the start symbol.
C1_ReportedWeightIsMin ==
  (pc = "done" /\ Accepted) => output.weight = MinWeight(grammar, tokens)

\* C2: for a grammar without empty right-hand sides, once the main loop has
\* finished a parse is printed iff the sentence is derivable, and that is the
\* case iff the last column holds a complete start-symbol item starting at 0.
C2_AcceptedIffDerivable ==
  (pc = "done" /\ NoEmptyRhs(grammar)) =>
     /\ Accepted <=> Derivable(grammar, tokens)
     /\ Rejected <=> ~Derivable(grammar, tokens)
     /\ Accepted <=> RootItems # {}

C2_Witness ==
  /\ pc = "done" /\ NoEmptyRhs(grammar) /\ Accepted
  /\ Len(tokens) = 2 /\ Derivable(grammar, tokens)

\* C3: for a grammar without empty right-hand sides and without unit-rule
\* cycles the main loop terminates and the parse returns.
C3_Terminates ==
  (pc = "init" /\ NoEmptyRhs(grammar) /\ NoUnitCycle(grammar)) ~> (pc = "done")

\* C4: an item that ATTACH moves down after it was popped is pending again in
\* its column, and is popped again before the driver leaves that column.
C4_MovedItemPoppedAgain ==
  /\ \A k \in 1..Len(moves) :
       <<moves[k].col, moves[k].item>> \in ever_popped =>
          Pending(cols[moves[k].col + 1], moves[k].item)
  /\ \A o \in owed : pc = "loop" /\ o[1] = i /\ len(cols[i + 1]) > 0

\* C5: when the main loop has finished, every tip's weight is the weight of
\* the item's rule plus the weights now stored in the tips its backpointers
\* name.
RECURSIVE ChildWeights(_, _)
ChildWeights(cs, bps) ==
  IF bps = <<>> THEN 0
  ELSE (IF Len(Head(bps)) = 0 THEN 0
        ELSE cs[Head(bps)[2] + 1].tips[Head(bps)[1]].weight)
       + ChildWeights(cs, Tail(bps))

C5_TipWeightIsSumOfChildren ==
  LoopFinished =>
    \A c \in 1..Len(cols) : \A it \in DOMAIN cols[c].tips :
       cols[c].tips[it].weight
         = it.rule.weight + ChildWeights(cols, cols[c].tips[it].backpointers)

\* C6: the item whose weight is reported has the least tip weight among the
\* complete start-symbol items of the last column that start at 0.
C6_SelectedItemHasMinWeight ==
  (pc = "done" /\ Accepted) =>
     \A it \in RootItems :
        cols[Len(cols)].tips[final_item[1]].weight <= cols[Len(cols)].tips[it].weight

\* C7: when the main loop has finished, every complete item J of column c has
\* been attached to every customer C of column J.start: C advanced is in
\* column c with a tip no heavier than tip(C) + tip(J).
C7_AttachClosed ==
  LoopFinished =>
    \A c \in 1..Len(cols) : \A J \in DOMAIN cols[c].index :
       next_symbol(J) = None =>
          \A C \in DOMAIN cols[J.start_position + 1].index :
             next_symbol(C) = J.rule.lhs =>
                /\ with_dot_advanced(C) \in DOMAIN cols[c].tips
                /\ cols[c].tips[with_dot_advanced(C)].weight
                     <= cols[J.start_position + 1].tips[C].weight + cols[c].tips[J].weight

\* C8: the index map of every column names each item's place in the item
\* sequence.
C8_IndexConsistent ==
  \A c \in 1..Len(cols) : \A it \in DOMAIN cols[c].index :
     /\ cols[c].index[it] < Len(cols[c].items)
     /\ cols[c].items[cols[c].index[it] + 1] = it

\* C9: update_tip installs the candidate and returns false when the item has
\* no tip; with a tip it replaces it and returns true iff the candidate is no
\* heavier, and otherwise keeps the tip and returns false; so a stored tip
\* weight never increases.
C9_UpdateTip ==
  [][ /\ \A k \in 1..Len(calls') :
           LET call == calls'[k] IN
           IF call.before = <<>>
           THEN call.after = call.candidate /\ ~call.ret
           ELSE IF call.candidate.weight <= call.before[1].weight
                THEN call.after = call.candidate /\ call.ret
                ELSE call.after = call.before[1] /\ ~call.ret
      /\ \A c \in 1..Len(cols) : \A it \in DOMAIN cols[c].tips :
           /\ it \in DOMAIN cols'[c].tips
           /\ cols'[c].tips[it].weight <= cols[c].tips[it].weight ]_vars

C9_Witness ==
  \E k \in 1..Len(calls) :
     /\ calls[k].before # <<>>
     /\ calls[k].candidate.weight < calls[k].before[1].weight
     /\ calls[k].ret

NoDuplicates(seq) == \A j, k \in 1..Len(seq) : j # k => seq[j] # seq[k]

\* C11: push(item) returns false and appends the item, recording its index,
\* when the item was never pushed into the column; on an item pushed before
\* (popped already or still pending) it returns true and leaves the item
\* sequence, the index map and the cursor as they were.  So no item occurs
\* twice in the sequence, and pushing an item twice is pushing it once.
C11_Push ==
  /\ api.op = "push" =>
       LET a == api.before
           b == cols[1]
           it == api.arg[1]
       IN IF it \notin Range(a.items)
          THEN /\ ~api.ret
               /\ b.items = Append(a.items, it)
               /\ DOMAIN b.index = DOMAIN a.index \cup {it}
               /\ b.index[it] = Len(b.items) - 1
               /\ \A k \in DOMAIN a.index : b.index[k] = a.index[k]
               /\ b.next = a.next
          ELSE /\ api.ret
               /\ b.items = a.items
               /\ b.index = a.index
               /\ b.next = a.next
  /\ NoDuplicates(cols[1].items)
  /\ \A it \in ApiItems :
       LET once == push(cols[1], it)
           twice == push(once.agenda, it)
       IN twice.agenda = once.agenda /\ twice.ret

\* an item that was popped already has just been pushed again
C11_Witness ==
  /\ api.op = "push"
  /\ api.ret
  /\ api.before.index[api.arg[1]] < api.before.next
  /\ Len(cols[1].items) >= 2

\* -------------------------------------------------------------------- pop
\* C12: pop() on a column with a pending item returns the item at index next
\* and advances next by exactly 1, so that as long as move_down_item was not
\* called the items popped are the pushed ones in push order, each once;
\* pop() on a column with nothing pending raises and leaves the column as it
\* was.
C12_Pop ==
  /\ api.op = "pop" =>
       LET a == api.before
           b == cols[1]
       IN IF a.next < Len(a.items)
          THEN /\ ~api.raised
               /\ api.item = <<a.items[a.next + 1]>>
               /\ b = [a EXCEPT !.next = a.next + 1]
          ELSE /\ api.raised
               /\ api.item = <<>>
               /\ b = a
  /\ ~api.moved =>
       /\ api.pops = SubSeq(cols[1].items, 1, cols[1].next)
       /\ NoDuplicates(api.pops)

\* two items were popped in push order and a third pop found nothing pending
C12_Witness ==
  /\ api.op = "pop"
  /\ api.raised
  /\ ~api.moved
  /\ Len(api.pops) >= 2
  /\ api.pops = cols[1].items
\* ------------------------------------------------------ unique derivations
\* The number of derivation trees of each fact, counted up to 2.  RhsCount is
\* the number of ways rhs[k..] derives tokens a..b-1 given the counts N of the
\* facts; RhsCountFrom adds them up over the end m of the span of rhs[k].
Capped(n) == IF n > 2 THEN 2 ELSE n

RECURSIVE RhsCount(_, _, _, _, _, _, _)
RECURSIVE RhsCountFrom(_, _, _, _, _, _, _, _)
RhsCount(g, toks, N, rhs, k, a, b) ==
  IF k > Len(rhs) THEN (IF a = b THEN 1 ELSE 0)
  ELSE IF is_nonterminal(g, rhs[k])
       THEN RhsCountFrom(g, toks, N, rhs, k, a, b, a)
       ELSE IF a < b /\ toks[a + 1] = rhs[k]
            THEN RhsCount(g, toks, N, rhs, k + 1, a + 1, b)
            ELSE 0

RhsCountFrom(g, toks, N, rhs, k, a, b, m) ==
  IF m > b THEN 0
  ELSE Capped(N[<<rhs[k], a, m>>] * RhsCount(g, toks, N, rhs, k + 1, m, b)
              + RhsCountFrom(g, toks, N, rhs, k, a, b, m + 1))

RECURSIVE RuleCount(_, _, _, _, _)
RuleCount(g, toks, N, f, r) ==
  IF r > Len(g) THEN 0
  ELSE Capped((IF g[r].lhs = f[1] THEN RhsCount(g, toks, N, g[r].rhs, 1, f[2], f[3]) ELSE 0)
              + RuleCount(g, toks, N, f, r + 1))

RECURSIVE CountFix(_, _, _)
CountFix(g, toks, N) ==
  LET N2 == [f \in DOMAIN N |-> RuleCount(g, toks, N, f, 1)] IN
  IF N2 = N THEN N ELSE CountFix(g, toks, N2)

\* the number of derivation trees of the sentence from the start symbol: 0, 1,
\* or 2 for two or more
DerivationCount(g, toks) ==
  LET spans == { <<a, b>> \in (0..Len(toks)) \X (0..Len(toks)) : a <= b }
      facts == { <<g[r].lhs, sp[1], sp[2]>> : r \in 1..Len(g), sp \in spans }
  IN CountFix(g, toks, [f \in facts |-> 0])[<<start_symbol, 0, Len(toks)>>]

\* The rules of a printed tree, as <<lhs, rhs>> pairs in the order their
\* closing brackets are printed.  open holds the nodes still open, each with
\* the children read so far.
RECURSIVE TreeRulesFrom(_, _, _, _)
TreeRulesFrom(tree, k, open, done) ==
  IF k > Len(tree) THEN done
  ELSE IF tree[k] = "("
       THEN TreeRulesFrom(tree, k + 2, Append(open, <<tree[k + 1], <<>>>>), done)
       ELSE LET top == open[Len(open)]
                below == SubSeq(open, 1, Len(open) - 1)
            IN IF tree[k] = ")"
               THEN TreeRulesFrom(tree, k + 1,
                      IF below = <<>> THEN below
                      ELSE [below EXCEPT ![Len(below)][2] = Append(@, top[1])],
                      Append(done, top))
               ELSE TreeRulesFrom(tree, k + 1,
                      Append(below, <<top[1], Append(top[2], tree[k])>>), done)

TreeRules(tree) == TreeRulesFrom(tree, 1, <<>>, <<>>)

RulesOf(g, node) == { r \in Range(g) : r.lhs = node[1] /\ r.rhs = node[2] }

RECURSIVE SumWeights(_, _, _)
SumWeights(g, nodes, k) ==
  IF k > Len(nodes) THEN 0
  ELSE (CHOOSE r \in RulesOf(g, nodes[k]) : TRUE).weight + SumWeights(g, nodes, k + 1)

\* the terminals of a printed tree, left to right
RECURSIVE TreeLeaves(_, _)
TreeLeaves(tree, k) ==
  IF k > Len(tree) THEN <<>>
  ELSE IF tree[k] = "(" THEN TreeLeaves(tree, k + 2)
       ELSE IF tree[k] = ")" THEN TreeLeaves(tree, k + 1)
            ELSE <<tree[k]>> \o TreeLeaves(tree, k + 1)

\* C13: when the sentence is accepted and has exactly one derivation from the
\* start symbol, the weight reported is the sum of the weights of the rules
\* of that derivation, and it is the sum of the weights of the rules of the
\* tree printed.
C13_UnambiguousWeight ==
  (pc = "done" /\ Accepted /\ DerivationCount(grammar, tokens) = 1) =>
     LET nodes == TreeRules(output.tree) IN
       /\ output.weight = MinWeight(grammar, tokens)
       /\ \A k \in 1..Len(nodes) : RulesOf(grammar, nodes[k]) # {}
       /\ output.weight = SumWeights(grammar, nodes, 1)

\* a two-word sentence with one derivation, of weight 2 or more
C13_Witness ==
  /\ pc = "done" /\ Accepted /\ DerivationCount(grammar, tokens) = 1
  /\ Len(tokens) = 2
  /\ output.weight >= 2
  /\ Len(TreeRules(output.tree)) >= 3
\* C14: for every accepted sentence the terminals of the tree printed, read
\* left to right, are the input tokens, also when the tip of a child item
\* was overwritten after its parent's backpointer to it was recorded.
C14_TreeYieldsTokens ==
  (pc = "done" /\ Accepted) => TreeLeaves(output.tree, 1) = tokens

\* A tip was replaced after the item's parents were built (the item was moved
\* down and never popped again), and the tree printed follows the new tip:
\* its rules weigh less than the weight reported for the root.
C14_Witness ==
  /\ pc = "done" /\ Accepted
  /\ owed # {}
  /\ Len(tokens) >= 1
  /\ TreeLeaves(output.tree, 1) = tokens
  /\ SumWeights(grammar, TreeRules(output.tree), 1) < output.weight
\* every tip stored in the chart, with its item and the column (0-based)
StoredTips ==
  UNION { { <<c - 1, it, cols[c].tips[it]>> : it \in DOMAIN cols[c].tips } :
          c \in 1..Len(cols) }

\* C15: in every reachable state, every tip stored for an item has as many
\* backpointers as the item's dot position: none for a predicted item, one
\* more after each SCAN or ATTACH.
C15_BackpointersMatchDot ==
  /\ \A e \in StoredTips : Len(e[3].backpointers) = e[2].dot_position
  /\ \A k \in 1..Len(calls) :
       Len(calls[k].candidate.backpointers) =
         (IF calls[k].op = "PREDICT" THEN 0 ELSE calls[k].item.dot_position)

\* a tip with two backpointers, one made by ATTACH and one by SCAN
C15_Witness ==
  \E c \in 1..Len(cols) : \E it \in DOMAIN cols[c].tips :
    /\ it.dot_position = 2
    /\ Len(cols[c].tips[it].backpointers) = 2
    /\ cols[c].tips[it].backpointers[1] # <<>>
    /\ cols[c].tips[it].backpointers[2] = <<>>
\* the calls of the last step that PREDICT made for an item the column
\* already held
PredictedAgain == { k \in 1..Len(calls) : calls[k].op = "PREDICT" /\ calls[k].existed }

\* C16: when PREDICT builds an item that the column already holds, the
\* update_tip_for_item call made for it returns false.
C16_PredictAgainReturnsFalse ==
  \A k \in PredictedAgain : ~calls[k].ret

\* C16, amended: when PREDICT builds an item that the column already holds,
\* the candidate tip equals the stored one (the rule's weight, no
\* backpointers), so the update_tip_for_item call replaces the tip by an equal
\* one and returns true; no move-down follows.
C16_PredictAgainReturnsTrue ==
  /\ \A k \in PredictedAgain :
       /\ calls[k].ret
       /\ calls[k].before = <<calls[k].candidate>>
       /\ calls[k].after = calls[k].candidate
       /\ calls[k].candidate.weight = calls[k].item.rule.weight
       /\ calls[k].candidate.backpointers = <<>>
  /\ PredictedAgain # {} => moves = <<>>

C16_Witness == PredictedAgain # {}
\* the item the next turn of the while loop pops, and the columns as the pop
\* alone leaves them
NextItem == cols[i + 1].items[cols[i + 1].next + 1]
AfterPop == [cols EXCEPT ![i + 1].next = @ + 1]

\* C17: SCAN of an item I popped in column c whose next symbol is a terminal
\* t.  If c < |tokens| and tokens[c] = t, the advanced item is pushed into
\* column c+1 and offered a tip with the weight of I's tip and with I's
\* backpointers followed by one empty backpointer, and no other column is
\* written; otherwise SCAN changes no column at all.
C17_Scan ==
  [][Scan =>
       LET I == NextItem
           tip_I == cols[i + 1].tips[I]
           advanced == Item(I.rule, I.dot_position + 1, I.start_position)
       IN IF i < Len(tokens) /\ tokens[i + 1] = I.rule.rhs[I.dot_position + 1]
          THEN /\ advanced \in Range(cols'[i + 2].items)
               /\ advanced \in DOMAIN cols'[i + 2].index
               /\ cols'[i + 2].next = cols[i + 2].next
               /\ Len(calls') = 1
               /\ calls'[1].op = "SCAN"
               /\ calls'[1].col = i + 1
               /\ calls'[1].item = advanced
               /\ calls'[1].existed = (advanced \in Range(cols[i + 2].items))
               /\ calls'[1].candidate.weight = tip_I.weight
               /\ calls'[1].candidate.backpointers = tip_I.backpointers \o << <<>> >>
               /\ \A c \in DOMAIN cols : c # i + 2 => cols'[c] = AfterPop[c]
          ELSE /\ cols' = AfterPop
               /\ calls' = <<>>
               /\ moves' = <<>>]_vars

\* SCAN has just advanced B -> B . y over the second word
C17_Witness ==
  /\ Len(calls) = 1
  /\ calls[1].op = "SCAN"
  /\ calls[1].col = 2
  /\ calls[1].item.dot_position = 2
  /\ calls[1].candidate.weight >= 2
  /\ calls[1].candidate.backpointers[2] = <<>>
  /\ calls[1].after = calls[1].candidate
\* the items of the calls of a step that found the item in the column and
\* replaced its tip, in call order
RECURSIVE ImprovedItems(_, _)
ImprovedItems(cs, k) ==
  IF k > Len(cs) THEN <<>>
  ELSE (IF cs[k].existed /\ cs[k].ret THEN <<cs[k].item>> ELSE <<>>)
       \o ImprovedItems(cs, k + 1)

\* the number of move_down_item calls that moved the cursor
RECURSIVE CursorMoves(_, _)
CursorMoves(ms, k) ==
  IF k > Len(ms) THEN 0
  ELSE (IF ms[k].after.next # ms[k].before.next THEN 1 ELSE 0) + CursorMoves(ms, k + 1)

\* C18: PREDICT and SCAN never move an item down, and leave every cursor as
\* the driver's pop left it.  ATTACH calls move_down_item exactly for the
\* advanced items that were in the column already (existed) and had their tip
\* replaced (improved), each such call lowers the cursor of the column being
\* processed by at most one, and no other cursor changes; an advanced item
\* that is new, or whose candidate is strictly worse than its tip, is not
\* moved down.
C18_MoveDownOnlyInAttach ==
  [][/\ (\E c \in DOMAIN cols : cols'[c].next < cols[c].next) =>
          /\ moves' # <<>>
          /\ \A k \in 1..Len(calls') : calls'[k].op = "ATTACH"
     /\ (Predict \/ Scan) =>
          /\ moves' = <<>>
          /\ \A c \in DOMAIN cols : cols'[c].next = AfterPop[c].next
     /\ Attach =>
          /\ [k \in 1..Len(moves') |-> moves'[k].item] = ImprovedItems(calls', 1)
          /\ \A k \in 1..Len(moves') :
               /\ moves'[k].col = i
               /\ moves'[k].after.next \in {moves'[k].before.next, moves'[k].before.next - 1}
          /\ cols'[i + 1].next = AfterPop[i + 1].next - CursorMoves(moves', 1)
          /\ \A c \in DOMAIN cols : c # i + 1 => cols'[c].next = cols[c].next
          /\ \A k \in 1..Len(calls') :
               (\/ ~calls'[k].existed
                \/ calls'[k].candidate.weight > calls'[k].before[1].weight)
                 => ~calls'[k].ret]_vars

\* one ATTACH step lowered the cursor for an improved item and made a new
\* item without moving it down
C18_Witness ==
  /\ \E m \in 1..Len(moves) : moves[m].after.next = moves[m].before.next - 1
  /\ \E k \in 1..Len(calls) :
       /\ calls[k].op = "ATTACH"
       /\ ~calls[k].existed
  /\ Len(moves) < Len(calls)
\* the backpointer graph: an edge from <<item, column>> to <<child, column>>
\* for every backpointer of the tip stored for the item in the column
BackpointerEdges ==
  UNION { { << <<e[2], e[1]>>, <<e[3].backpointers[k][1], e[3].backpointers[k][2]>> >> :
              k \in { k0 \in 1..Len(e[3].backpointers) : e[3].backpointers[k0] # <<>> } } :
          e \in StoredTips }

\* C19: in every reachable state the backpointer graph has no cycle, and
\* every child lives in a column that is not after its parent's.
C19_BackpointersAcyclic ==
  /\ \A p \in BackpointerEdges : p[2][2] <= p[1][2]
  /\ \A p \in Closure(BackpointerEdges) : p[1] # p[2]
\* C20: while the driver processes column i, PREDICT and ATTACH write only to
\* column i and SCAN only to column i+1 (the driver's pop moves the cursor of
\* column i); a column the driver has left never changes again and has no
\* pending item.
C20_ColumnsBehindAreFinal ==
  [][/\ \A c \in 1..i : cols'[c] = cols[c] /\ len(cols[c]) = 0
     /\ \A c \in 1..i' : cols'[c].next = Len(cols'[c].items)
     /\ (Predict \/ Attach) => \A c \in DOMAIN cols : c # i + 1 => cols'[c] = cols[c]
     /\ Scan => \A c \in DOMAIN cols : c \notin {i + 1, i + 2} => cols'[c] = cols[c]
     /\ Scan => \A it \in DOMAIN cols[i + 1].tips :
                  /\ cols'[i + 1].tips[it] = cols[i + 1].tips[it]
                  /\ cols'[i + 1].items = cols[i + 1].items]_vars

\* in the last column of a two-word sentence ATTACH has just advanced a
\* customer that waits in column 0
C20_Witness ==
  /\ i = 2
  /\ \E k \in 1..Len(calls) :
       /\ calls[k].op = "ATTACH"
       /\ calls[k].col = 2
       /\ calls[k].item.start_position = 0
  /\ Len(cols[1].items) >= 2
  /\ len(cols[1]) = 0
\* -------------------------------------------------- assertions and lookups
\* every backpointer stored at position k of a tip, with the tip's item and
\* column: <<column, item, k, backpointer>>
StoredBackpointers ==
  UNION { { <<e[1], e[2], k, e[3].backpointers[k]>> : k \in 1..Len(e[3].backpointers) } :
          e \in StoredTips }

====
